---- MODULE Spec2Model ----
(***************************************************************************)
(* Model of the PBpool Stratum server (src/stratum.py) with the helpers it  *)
(* calls in src/utils.py, src/models.py and src/bitcoin_rpc.py.             *)
(*                                                                          *)
(* Representation choices                                                   *)
(*  - bytes objects are sequences of 0..255; hex strings are sequences of   *)
(*    nibbles 0..15 (one per hex character).                                *)
(*  - 256-bit integers (the hash value, the network target) are 32-byte     *)
(*    big-endian sequences compared lexicographically, which is the order   *)
(*    of int.from_bytes(b, 'big').                                          *)
(*  - SHA-256 is replaced by a deterministic 32-byte digest of the input    *)
(*    bytes (a rolling checksum spread over the 32 positions).  Two         *)
(*    different digests always come from two different inputs.              *)
(*  - difficulties are whole numbers, times are tenths of a second.         *)
(***************************************************************************)
EXTENDS Integers, Sequences, FiniteSets, TLC

VARIABLES
    clients,      \* self.clients: client_id -> session dict, or NoClient
    pc,           \* position of each client's handle_client thread
    cur,          \* the request each client thread is processing
    sent,         \* frames written to each client's socket, in order, since
                  \* its thread last took a line off it
    nreq,         \* number of lines each client thread has read
    rpcTemplate,  \* index of the template the upstream node serves now
    miners,       \* miners.json: worker -> shares
    sink,         \* blocks handed to submit_block, in order
    now,          \* last value returned by time.time()
    running,      \* self.running
    bpc,          \* position of the job_broadcaster thread
    bqueue,       \* authorized_clients still to be served in this sweep
    bcycles,      \* sweeps started so far
    bused,        \* size of self.clients when the sweep's iteration began
    buffer,       \* bytes in the read buffer of each client thread
    acceptor,     \* position of the accept loop of start
    blockResult,  \* what submit_block returned in the last submit ("none": not called)
    gpc,          \* where a call of get_block_template stands
    gattempts,    \* calls of rpc.getblocktemplate made by that call
    tasks,        \* the threads that load and save the miner store
    ledger,       \* per worker address: the shares it should have, the shares
                  \* accepted and the blocks credited since the start, the
                  \* amount sent to it
    hashOf,       \* hash(client_id) & 0xffffffff for this process
    credited,     \* history: the submits credited on each session since the
                  \* last mining.notify sent to it
    lastJob       \* history: job_id of the last mining.notify sent to each session

vars == <<clients, pc, cur, sent, nreq, rpcTemplate, miners, sink, now,
          running, bpc, bqueue, bcycles, bused, buffer, acceptor, hashOf, tasks, ledger, gpc, gattempts, blockResult, credited, lastJob>>

-----------------------------------------------------------------------------
(* Bounds of the model                                                      *)

MaxRequests == 3
MaxBroadcasts == 1
MaxTemplates == 2

-----------------------------------------------------------------------------
(* Byte and hex helpers (struct.pack, bytes.hex, bytes.fromhex, [::-1])     *)

\* struct.pack('<B' | '<H' | '<L' | '<Q', n): n as k little-endian bytes
RECURSIVE PackLE(_, _)
PackLE(n, k) == IF k = 0 THEN <<>> ELSE <<n % 256>> \o PackLE(n \div 256, k - 1)

\* b[::-1]
Reverse(s) == [i \in 1..Len(s) |-> s[Len(s) + 1 - i]]

\* b'\x00' * n and friends
Repeat(b, n) == [i \in 1..n |-> b]

\* bytes.hex(): two hex characters per byte, high nibble first
ToHex(b) == [i \in 1..(2 * Len(b)) |->
                IF i % 2 = 1 THEN b[(i + 1) \div 2] \div 16
                             ELSE b[i \div 2] % 16]

\* bytes.fromhex() of an even-length hex string
FromHex(h) == [i \in 1..(Len(h) \div 2) |-> 16 * h[2 * i - 1] + h[2 * i]]

\* str.encode() of a lowercase hex string: the ASCII code of each character
HexChar(n) == IF n < 10 THEN 48 + n ELSE 87 + n
EncodeHex(h) == [i \in 1..Len(h) |-> HexChar(h[i])]

\* s[:n] and s[n:] of Python
Take(s, n) == SubSeq(s, 1, IF n < Len(s) THEN n ELSE Len(s))
Drop(s, n) == SubSeq(s, n + 1, Len(s))

\* a < b for two big-endian byte strings of one length
RECURSIVE LessFrom(_, _, _)
LessFrom(a, b, i) ==
    IF i > Len(a) THEN FALSE
    ELSE IF a[i] # b[i] THEN a[i] < b[i]
    ELSE LessFrom(a, b, i + 1)

LessBE(a, b) == LessFrom(a, b, 1)

-----------------------------------------------------------------------------
(* utils.double_sha256                                                     *)

DigestLen == 32

\* the checksum is a polynomial in the bytes: short runs are evaluated left
\* to right, longer ones by halving the input
Modulus == 32749

RECURSIVE PowMod(_)
PowMod(k) ==
    IF k = 0 THEN 1
    ELSE LET half == PowMod(k \div 2)
             sq   == (half * half) % Modulus
         IN  IF k % 2 = 1 THEN (sq * 31) % Modulus ELSE sq

RECURSIVE Horner(_, _, _)
Horner(data, lo, hi) ==
    IF lo > hi THEN 0
    ELSE (Horner(data, lo, hi - 1) * 31 + data[hi] + 1) % Modulus

RECURSIVE Poly(_, _, _)
Poly(data, lo, hi) ==
    IF hi - lo < 16 THEN Horner(data, lo, hi)
    ELSE LET mid == (lo + hi) \div 2
         IN  (Poly(data, lo, mid) * PowMod(hi - mid) + Poly(data, mid + 1, hi))
                % Modulus

Absorb(data) ==
    ((7 + Len(data)) * PowMod(Len(data)) + Poly(data, 1, Len(data))) % Modulus

\* stand-in for hashlib.sha256(data).digest()
Sha256(data) ==
    LET acc == Absorb(data)
        \* the digest bytes, as a tuple
    IN  <<>> \o [i \in 1..DigestLen |-> (((acc + 13 * i) * (2 * i + 1)) \div 3) % 256]

double_sha256(data) == Sha256(Sha256(data))

-----------------------------------------------------------------------------
(* bitcoin_rpc.get_block_template: what the upstream node serves            *)

Zero256 == Repeat(0, 64)

\* hash and data of the k-th mempool transaction (hash as the hex string of
\* the template, data as the hex string of the raw transaction)
TxOf(k) == [hash |-> ToHex([i \in 1..32 |-> (17 * k + 3 * i) % 256]),
            data |-> ToHex(<<2, 0, k, 171>>)]

\* the fallback template returned when there is no RPC connection
DummyTemplate ==
    [version           |-> 536870912,
     previousblockhash |-> Zero256,
     transactions      |-> <<>>,
     coinbasevalue     |-> 625000000,
     target            |-> Repeat(0, 56) \o <<15, 15, 15, 15, 0, 0, 0, 0>>,
     mintime           |-> 1700000000 - 3600,
     curtime           |-> 1700000000,
     bits              |-> <<2, 0, 7, 15, 15, 15, 15, 15>>,
     height            |-> 1]

\* the i-th template of the upstream node: the chain grows, the mempool
\* fills, and the later templates carry easier targets
TemplateHeight(i) == IF i = 2 THEN 130 ELSE 40000 + i

TemplateTarget(i) ==
    IF i = 2 THEN <<8, 0>> \o Repeat(0, 62) ELSE Repeat(15, 64)

Template(i) ==
    IF i = 1 THEN DummyTemplate
    ELSE [version           |-> 536870912,
          previousblockhash |-> ToHex([k \in 1..32 |-> (i + 5 * k) % 256]),
          transactions      |-> [k \in 1..(i - 1) |-> TxOf(k)],
          coinbasevalue     |-> 625000000 + i,
          target            |-> TemplateTarget(i),
          mintime           |-> 1700000000 + 600 * i - 300,
          curtime           |-> 1700000000 + 600 * i,
          bits              |-> <<1, 13, 0, 0, 15, 15, 15, 15>>,
          height            |-> TemplateHeight(i)]

get_block_template == Template(rpcTemplate)

\* frames left on the stack for the calls that get_block_template makes of
\* itself
MaxDepth == 120

\* a caller enters get_block_template; without an RPC connection it is handed
\* the dummy template at once
ProviderCall ==
    /\ gpc # "calling"
    /\ gattempts' = 0
    /\ \E connected \in BOOLEAN :
          gpc' = IF connected THEN "calling" ELSE "returned"
    /\ UNCHANGED <<clients, pc, cur, sent, nreq, rpcTemplate, miners, sink, now,
                   running, bpc, bqueue, bcycles, bused, buffer, acceptor, hashOf, tasks, ledger,
                   blockResult, credited, lastJob>>

\* rpc.getblocktemplate answers: the template is returned through every frame
UpstreamReturns ==
    /\ gpc = "calling"
    /\ gattempts' = gattempts + 1
    /\ gpc' = "returned"
    /\ UNCHANGED <<clients, pc, cur, sent, nreq, rpcTemplate, miners, sink, now,
                   running, bpc, bqueue, bcycles, bused, buffer, acceptor, hashOf, tasks, ledger,
                   blockResult, credited, lastJob>>

\* rpc.getblocktemplate raises: the handler calls get_block_template(None),
\* which finds the global rpc still set and asks the node again; with no
\* frame left the call raises RecursionError to the caller
UpstreamRaises ==
    /\ gpc = "calling"
    /\ gattempts' = gattempts + 1
    /\ gpc' = IF gattempts + 1 < MaxDepth THEN "calling" ELSE "raised"
    /\ UNCHANGED <<clients, pc, cur, sent, nreq, rpcTemplate, miners, sink, now,
                   running, bpc, bqueue, bcycles, bused, buffer, acceptor, hashOf, tasks, ledger,
                   blockResult, credited, lastJob>>

GNext == ProviderCall \/ UpstreamReturns \/ UpstreamRaises

-----------------------------------------------------------------------------
(* StratumServer.build_coinbase_tx                                         *)

\* BIP 34 height serialization
HeightBytes(height) ==
    IF height < 17 THEN PackLE(height, 1)
    ELSE IF height < 128 THEN <<1>> \o PackLE(height, 1)
    ELSE IF height < 32768 THEN <<2>> \o PackLE(height, 2)
    ELSE <<4>> \o PackLE(height, 4)

\* b'/stratum/'
ArbitraryData == <<47, 115, 116, 114, 97, 116, 117, 109, 47>>

P2PKHScript == <<25, 118, 169, 20>> \o Repeat(0, 20) \o <<136, 172>>

\* worker_address.startswith(('bc1', 'tb1'))
Bech32Workers == {"bc1qminer", "tb1qminer"}

OutputScript(worker_address) ==
    IF worker_address \in Bech32Workers THEN P2PKHScript ELSE P2PKHScript

\* extranonce1 is the 8-character hex string, extranonce2 is bytes
build_coinbase_tx(template, extranonce1, extranonce2, worker_address) ==
    LET coinbase_script == HeightBytes(template.height) \o EncodeHex(extranonce1)
                              \o extranonce2 \o ArbitraryData
        script == OutputScript(worker_address)
    IN  PackLE(1, 4) \o <<1>> \o Repeat(0, 32) \o Repeat(255, 4)
          \o PackLE(Len(coinbase_script), 1) \o coinbase_script
          \o Repeat(255, 4) \o <<1>>
          \o PackLE(template.coinbasevalue, 8)
          \o PackLE(Len(script), 1) \o script
          \o Repeat(0, 4)

-----------------------------------------------------------------------------
(* utils.build_merkle_root and StratumServer.calculate_merkle_branch       *)

RECURSIVE MerkleFold(_, _, _)
MerkleFold(root, transactions, i) ==
    IF i > Len(transactions) THEN root
    ELSE MerkleFold(double_sha256(root \o Reverse(FromHex(transactions[i].hash))),
                    transactions, i + 1)

build_merkle_root(coinbase_hash, transactions) ==
    MerkleFold(coinbase_hash, transactions, 1)

\* one level of the tree: pad to even length, hash the pairs
PadEven(level) == IF Len(level) % 2 = 1 THEN Append(level, level[Len(level)])
                  ELSE level

NextLevel(level) ==
    [i \in 1..(Len(level) \div 2) |->
        double_sha256(level[2 * i - 1] \o level[2 * i])]

RECURSIVE BranchFrom(_, _)
BranchFrom(level, branch) ==
    IF Len(level) <= 1 THEN branch
    ELSE LET padded == PadEven(level)
         IN  BranchFrom(NextLevel(padded), Append(branch, ToHex(padded[2])))

calculate_merkle_branch(transactions) ==
    IF Len(transactions) = 0 THEN <<>>
    ELSE Reverse(BranchFrom([i \in 1..Len(transactions) |->
                                Reverse(FromHex(transactions[i].hash))], <<>>))

-----------------------------------------------------------------------------
(* utils.difficulty_to_bits                                                *)

\* max_target = 0x00000000ffff0000...0000 as 64 hex digits
MaxTargetHex == Repeat(0, 8) \o Repeat(15, 4) \o Repeat(0, 52)

\* int(max_target / difficulty): long division, one hex digit at a time,
\* eight digits to a block; the result is <<quotient digits, remainder>>
RECURSIVE DivDigits(_, _, _, _, _)
DivDigits(digits, d, i, n, rem) ==
    IF n = 0 THEN <<<<>>, rem>>
    ELSE LET x    == rem * 16 + digits[i]
             rest == DivDigits(digits, d, i + 1, n - 1, x % d)
         IN  <<<<x \div d>> \o rest[1], rest[2]>>

RECURSIVE DivBlocks(_, _, _, _)
DivBlocks(digits, d, i, rem) ==
    IF i > Len(digits) THEN <<>>
    ELSE LET n     == IF Len(digits) - i + 1 < 8 THEN Len(digits) - i + 1 ELSE 8
             block == DivDigits(digits, d, i, n, rem)
         IN  block[1] \o DivBlocks(digits, d, i + n, block[2])

DivHex(digits, d) == DivBlocks(digits, d, 1, 0)

TargetOfDifficulty(difficulty) ==
    FromHex(DivHex(MaxTargetHex, IF difficulty < 1 THEN 1 ELSE difficulty))

\* (target.bit_length() + 7) // 8
RECURSIVE ByteSize(_)
ByteSize(b) == IF Len(b) = 0 THEN 0
               ELSE IF b[1] # 0 THEN Len(b) ELSE ByteSize(Tail(b))

difficulty_to_bits(difficulty) ==
    LET target  == TargetOfDifficulty(difficulty)
        size    == ByteSize(target)
        first   == Len(target) - size
        \* the three most significant bytes, zero-filled on the right
        compact == [i \in 1..3 |-> IF i <= size THEN target[first + i] ELSE 0]
    IN  IF compact[1] >= 128
        THEN ToHex(<<size + 1, 0, compact[1], compact[2]>>)
        ELSE ToHex(<<size>> \o compact)

-----------------------------------------------------------------------------
(* Inputs: the connections and the lines the miners send                    *)

ClientIds == {"10.0.0.1:5001", "10.0.0.2:5002", "10.0.0.3:5003"}

\* connections are accepted in this order
ClientOrder == <<"10.0.0.1:5001", "10.0.0.2:5002", "10.0.0.3:5003">>

\* the peers that connect once the server has started
Callers == {"10.0.0.1:5001"}

\* values of hash(client_id) & 0xffffffff
HashValues == {305419896, 19088743}

\* config['join_password']
join_password == "pw"

Passwords == {"pw", "bad"}

NoWorker == "None"
Workers == {"bc1qminer", "1Legacy"}

\* job_id of a template, f"job_{height}"
JobId(height) == "job_" \o ToString(height)

JobIds == {JobId(Template(i).height) : i \in 1..MaxTemplates} \cup {"does_not_exist"}

\* extranonce2, ntime and nonce as the hex strings of mining.submit
ExtraNonce2s == {<<0, 0, 0, 0, 0, 0, 0, 1>>}
Ntimes == {<<6, 5, 5, 3, 15, 1, 0, 0>>}
Nonces == {<<0, 0, 0, 0, 0, 0, 0, 1>>, <<0, 0, 0, 0, 0, 0, 0, 6>>}

\* seconds (in tenths) that time.time() may have advanced between two readings
ClockSteps == {5, 300}

NoField == <<>>

Request(method, nparams, worker, password, job_id, extra_nonce2, ntime, nonce) ==
    [method |-> method, nparams |-> nparams, worker |-> worker,
     password |-> password, job_id |-> job_id, extra_nonce2 |-> extra_nonce2,
     ntime |-> ntime, nonce |-> nonce]

SubscribeRequests ==
    {Request("mining.subscribe", 0, NoWorker, "", "", NoField, NoField, NoField)}

AuthorizeRequests ==
    {Request("mining.authorize", 2, w, p, "", NoField, NoField, NoField) :
        w \in {"bc1qminer"}, p \in Passwords}
    \cup {Request("mining.authorize", 1, w, "", "", NoField, NoField, NoField) :
        w \in {"bc1qminer"}}

\* submits under the authorized worker name and under another one, and one
\* with a parameter missing
SubmitRequests ==
    {Request("mining.submit", 5, "bc1qminer", "", j, e, t, n) :
        j \in JobIds, e \in ExtraNonce2s, t \in Ntimes, n \in Nonces}
    \cup {Request("mining.submit", 5, "1Legacy", "", j, e, t, <<0, 0, 0, 0, 0, 0, 0, 1>>) :
        j \in JobIds \ {"does_not_exist"}, e \in ExtraNonce2s, t \in Ntimes}
    \cup {Request("mining.submit", 4, "bc1qminer", "", "does_not_exist", e, t, NoField) :
        e \in ExtraNonce2s, t \in Ntimes}

OtherRequests ==
    {Request("mining.extranonce.subscribe", 0, NoWorker, "", "", NoField, NoField, NoField)}

NoRequest == Request("", 0, NoWorker, "", "", NoField, NoField, NoField)

-----------------------------------------------------------------------------
(* Frames written to a client socket                                        *)

NoneId == 0
NoError == <<>>

Reply(id, result, error, detail) ==
    [kind |-> "reply", id |-> id, result |-> result, error |-> error,
     detail |-> detail]

SetDifficulty(difficulty) ==
    [kind |-> "mining.set_difficulty", id |-> NoneId, params |-> <<difficulty>>]

IsReply(f) == f.kind = "reply"
IsSetDifficulty(f) == f.kind = "mining.set_difficulty"
IsNotify(f) == f.kind = "mining.notify"

\* f"{n:08x}"
RECURSIVE HexDigits(_, _)
HexDigits(n, k) == IF k = 0 THEN <<>> ELSE HexDigits(n \div 16, k - 1) \o <<n % 16>>

Hex08(n) == HexDigits(n, 8)

\* int(h, 16)
RECURSIVE HexToInt(_)
HexToInt(h) == IF Len(h) = 0 THEN 0
               ELSE 16 * HexToInt(SubSeq(h, 1, Len(h) - 1)) + h[Len(h)]

\* f"{hash(client_id) & 0xffffffff:08x}"
Extranonce1(client_id) == Hex08(hashOf[client_id])

-----------------------------------------------------------------------------
(* The clients registry and the sockets                                     *)

NewSession(t) ==
    [subscribed |-> FALSE, authorized |-> FALSE, worker |-> NoWorker,
     difficulty |-> 10000, share_times |-> <<>>, last_share_time |-> t]

\* client_id in self.clients
Registered(c) == c \in DOMAIN clients

\* self.clients[c] = session
Put(c, session) ==
    [x \in (DOMAIN clients) \cup {c} |-> IF x = c THEN session ELSE clients[x]]

\* del self.clients[c]
Remove(c) == [x \in (DOMAIN clients) \ {c} |-> clients[x]]

\* socket.send of one frame on the socket of c, given the sockets so far; on
\* a connection its peer has reset it raises, and every caller catches that
SocketSend(sockets, c, frame) ==
    IF pc[c] = "reset" THEN sockets ELSE [sockets EXCEPT ![c] = Append(@, frame)]

\* StratumServer.send_to_client
send_to_client(sockets, c, message) ==
    IF Registered(c) THEN SocketSend(sockets, c, message) ELSE sockets

send_difficulty_dropped(sockets, c, difficulty) == sockets

\* StratumServer.send_difficulty
send_difficulty(sockets, c, difficulty) ==
    send_to_client(sockets, c, SetDifficulty(difficulty))

-----------------------------------------------------------------------------
(* StratumServer.send_job_to_client                                        *)

Notify(job_id, prevhash, coinb1, coinb2, merkle_branch, version, nbits, ntime) ==
    [kind |-> "mining.notify", id |-> NoneId, job_id |-> job_id,
     prevhash |-> prevhash, coinb1 |-> coinb1, coinb2 |-> coinb2,
     merkle_branch |-> merkle_branch, version |-> version, nbits |-> nbits,
     ntime |-> ntime, clean_jobs |-> TRUE]

\* the split of the coinbase hex string around the extranonces
Coinb1(coinbase_hex) ==
    IF Len(coinbase_hex) > 90 THEN Take(coinbase_hex, 90) ELSE coinbase_hex

Coinb2(coinbase_hex) ==
    IF Len(coinbase_hex) > 90
    THEN (IF Len(coinbase_hex) > 106 THEN Drop(coinbase_hex, 106) ELSE <<>>)
    ELSE <<>>

\* the job of the except branch
FallbackJob(difficulty) ==
    Notify(JobId(now \div 10), Zero256,
           ToHex(PackLE(1, 4) \o <<1>> \o Repeat(0, 32) \o Repeat(255, 4) \o <<77, 4>>),
           ToHex(Repeat(255, 4) \o <<1, 64, 93, 198, 0, 0, 0, 0, 0, 25, 118, 169, 20,
                   3, 137, 3, 90, 146, 37, 179, 131, 158, 43, 191, 50, 216, 38,
                   162, 178, 138, 90, 213, 249, 136, 172, 0, 0, 0, 0>>),
           <<>>, Hex08(536870912), difficulty_to_bits(difficulty),
           Hex08(now \div 10))

\* the job built from the current template; a worker that is not a string
\* raises in build_coinbase_tx and the fallback job is sent instead
JobFor(c) ==
    LET client         == clients[c]
        worker_address == client.worker
        template       == get_block_template
        coinbase_hex   == ToHex(build_coinbase_tx(template, Extranonce1(c),
                                                  Repeat(0, 4), worker_address))
    IN  IF worker_address = NoWorker THEN FallbackJob(client.difficulty)
        ELSE Notify(JobId(template.height), template.previousblockhash,
                    Coinb1(coinbase_hex), Coinb2(coinbase_hex),
                    calculate_merkle_branch(template.transactions),
                    Hex08(template.version), template.bits,
                    Hex08(template.curtime))

send_job_to_client(sockets, c) ==
    IF ~Registered(c) THEN sockets ELSE send_to_client(sockets, c, JobFor(c))

-----------------------------------------------------------------------------
(* StratumServer.validate_and_submit_block                                 *)

\* the coinbase rebuilt for a submit
SubmitCoinbase(c, req, template) ==
    build_coinbase_tx(template, Extranonce1(c), FromHex(req.extra_nonce2), req.worker)

\* the 80-byte block header
BlockHeader(template, merkle_root, ntime, nonce) ==
    PackLE(template.version, 4)
      \o Reverse(FromHex(template.previousblockhash))
      \o Reverse(merkle_root)
      \o PackLE(HexToInt(ntime), 4)
      \o Reverse(FromHex(template.bits))
      \o PackLE(HexToInt(nonce), 4)

SubmitHeader(c, req, template) ==
    BlockHeader(template,
                build_merkle_root(double_sha256(SubmitCoinbase(c, req, template)),
                                  template.transactions),
                req.ntime, req.nonce)

\* block_hash[::-1].hex(), the hash as displayed
BlockHashHex(block_hash) == ToHex(Reverse(block_hash))

\* int.from_bytes(block_hash, 'big'), as 32 big-endian bytes
BlockHashInt(block_hash) == block_hash

\* int(template['target'], 16), as 32 big-endian bytes
NetworkTarget(template) == FromHex(template.target)

\* block_hash_int < network_target
MeetsNetworkTarget(block_hash, template) ==
    LessBE(BlockHashInt(block_hash), NetworkTarget(template))

\* the transaction count in front of the transactions
TxCountBytes(tx_count) ==
    IF tx_count < 253 THEN PackLE(tx_count, 1)
    ELSE IF tx_count < 65536 THEN <<253>> \o PackLE(tx_count, 2)
    ELSE <<254>> \o PackLE(tx_count, 4)

RECURSIVE TxData(_, _)
TxData(transactions, i) ==
    IF i > Len(transactions) THEN <<>>
    ELSE FromHex(transactions[i].data) \o TxData(transactions, i + 1)

FullBlock(header, coinbase_tx, template) ==
    header \o TxCountBytes(Len(template.transactions) + 1) \o coinbase_tx
      \o TxData(template.transactions, 1)

\* the blocks handed to submit_block after validating the submit req of c
\* the body of validate_and_submit_block, which depends on the template, on
\* the extranonce1 of the session and on the submit only: the block it hands
\* to submit_block, if any
FoundBlocks(template, extranonce1, req) ==
    LET coinbase_tx == build_coinbase_tx(template, extranonce1,
                                         FromHex(req.extra_nonce2), req.worker)
        header      == BlockHeader(template,
                                   build_merkle_root(double_sha256(coinbase_tx),
                                                     template.transactions),
                                   req.ntime, req.nonce)
    IN  IF MeetsNetworkTarget(double_sha256(header), template)
        THEN <<ToHex(FullBlock(header, coinbase_tx, template))>>
        ELSE <<>>

\* FoundBlocks of every template, extranonce1 and full submit, worked out once
FoundBlocksTable ==
    [key \in (1..MaxTemplates) \X HashValues \X {r \in SubmitRequests : r.nparams >= 5}
        |-> FoundBlocks(Template(key[1]), Hex08(key[2]), key[3])] @@ <<>>

validate_and_submit_block(blocks, c, req) ==
    blocks \o FoundBlocksTable[<<rpcTemplate, hashOf[c], req>>]

-----------------------------------------------------------------------------
(* models.process_share                                                    *)

\* 3.125 * (1 - pool_fee) with the default fee of 0.02, in 0.0001 BTC
block_reward == 30625

\* config.get('min_payout', 0.001), in 0.0001 BTC
min_payout == 10

\* a new record of the store; blocks counts the entries of the list, each of
\* which has the value block_reward
NoMiner == [shares |-> 0, blocks |-> 0, immature_balance |-> 0, paid |-> 0]

process_share(store, worker_address) ==
    LET miner  == IF worker_address \in DOMAIN store THEN store[worker_address]
                  ELSE NoMiner
        shares == miner.shares + 1
        found  == shares % 1000 = 0
    IN  [x \in (DOMAIN store) \cup {worker_address} |->
            IF x = worker_address
            THEN [shares |-> shares,
                  blocks |-> IF found THEN miner.blocks + 1 ELSE miner.blocks,
                  immature_balance |-> IF found THEN miner.immature_balance + block_reward
                                       ELSE miner.immature_balance,
                  paid |-> miner.paid]
            ELSE store[x]]

-----------------------------------------------------------------------------
(* StratumServer.adjust_client_difficulty                                  *)

MaxDifficulty == 100000000
MinDifficulty == 1000

\* any value above MaxDifficulty: the product is too large to write down
Huge == 2000000000

Min(a, b) == IF a < b THEN a ELSE b
Max(a, b) == IF a > b THEN a ELSE b
Abs(a) == IF a < 0 THEN 0 - a ELSE a

\* difficulty * num / den, rounded down to a whole number
Scale(difficulty, num, den) ==
    IF difficulty \div den >= Huge \div num THEN Huge
    ELSE (difficulty \div den) * num + ((difficulty % den) * num) \div den

SlowDifficultyUnfloored(current_difficulty) == Scale(current_difficulty, 7, 10)

\* max(1000.0, current_difficulty * 0.7)
SlowDifficulty(current_difficulty) ==
    Max(MinDifficulty, Scale(current_difficulty, 7, 10))

\* a table that only knows the fast, the slow and the good share
NewDifficultyGentle(current_difficulty, time_diff) ==
    IF time_diff < 150 THEN Scale(current_difficulty, 2, 1)
    ELSE IF time_diff > 600 THEN SlowDifficulty(current_difficulty)
    ELSE current_difficulty

\* the adjustment table; time_diff in tenths of a second
NewDifficulty(current_difficulty, time_diff) ==
    IF time_diff < 10
    THEN \* max(10.0, 30.0 / max(time_diff, 0.01))
         IF time_diff = 0 THEN Scale(current_difficulty, 3000, 1)
         ELSE IF 300 >= 10 * time_diff THEN Scale(current_difficulty, 300, time_diff)
         ELSE Scale(current_difficulty, 10, 1)
    ELSE IF time_diff < 50
    THEN \* max(5.0, 30.0 / max(time_diff, 0.1))
         IF 300 >= 5 * time_diff THEN Scale(current_difficulty, 300, time_diff)
         ELSE Scale(current_difficulty, 5, 1)
    ELSE IF time_diff < 150 THEN Scale(current_difficulty, 2, 1)
    ELSE IF time_diff > 600 THEN SlowDifficulty(current_difficulty)
    ELSE current_difficulty

CappedDifficulty(current_difficulty, time_diff) ==
    Min(NewDifficulty(current_difficulty, time_diff), MaxDifficulty)

\* abs(new_difficulty - current_difficulty) > current_difficulty * 0.05
ChangedSignificantly(new_difficulty, current_difficulty) ==
    20 * Abs(new_difficulty - current_difficulty) > current_difficulty

\* share_times after the append, cut to the last five
LastFive(times) == IF Len(times) > 5 THEN SubSeq(times, Len(times) - 4, Len(times))
                   ELSE times

\* the session after adjust_client_difficulty at current_time
AdjustedSession(client, current_time) ==
    LET time_diff == current_time - client.last_share_time
    IN  [client EXCEPT
            !.share_times = LastFive(Append(@, time_diff)),
            !.last_share_time = current_time,
            !.difficulty = CappedDifficulty(client.difficulty, time_diff)]

-----------------------------------------------------------------------------
(* The threads                                                              *)

\* a miner names the job of the last mining.notify it was sent, or a job
\* that was never sent; under the other worker name it names the former
CanBeSent(c, req) ==
    /\ req.job_id \in {"", "does_not_exist", lastJob[c]}
    /\ (req.job_id = "does_not_exist" /\ req.nparams >= 5)
          => req.nonce = <<0, 0, 0, 0, 0, 0, 0, 1>>
    /\ (req.method = "mining.submit" /\ req.worker = "1Legacy")
          => req.job_id = lastJob[c]

\* the thread of c may read req as its next line; the lines it had received
\* before the peer reset the connection are still handled
MayRead(c, req) ==
    /\ pc[c] \in {"recv", "reset"}
    /\ nreq[c] < MaxRequests
    /\ CanBeSent(c, req)

\* the thread of c takes req off its socket; the request id is the line number
Reading(c, req) == [request |-> req, id |-> nreq[c] + 1]

NotReading == [request |-> NoRequest, id |-> NoneId]

\* the sockets when the thread of c has taken its next line: what was written
\* to c before has been delivered
Delivered(c) == [sent EXCEPT ![c] = <<>>]

ShareKey(req) == <<req.job_id, req.extra_nonce2, req.ntime, req.nonce>>

NoJob == ""

\* the histories after send_job_to_client(c)
JobNoted(c) ==
    IF ~Registered(c) THEN lastJob
    ELSE [lastJob EXCEPT ![c] =
              IF clients[c].worker = NoWorker
              THEN FallbackJob(clients[c].difficulty).job_id
              ELSE JobId(get_block_template.height)]

CreditCleared(c) ==
    IF Registered(c) THEN [credited EXCEPT ![c] = {}] ELSE credited

Init ==
    /\ clients = [c \in {} |-> NewSession(0)]
    /\ pc = [c \in ClientIds |-> IF c \in Callers THEN "new" ELSE "absent"]
    /\ cur = [c \in ClientIds |-> NotReading]
    /\ sent = [c \in ClientIds |-> <<>>]
    /\ nreq = [c \in ClientIds |-> 0]
    /\ rpcTemplate = 1
    /\ miners = [w \in {} |-> NoMiner]
    /\ sink = <<>>
    /\ now = 0
    /\ running = TRUE
    /\ bpc = "sleep"
    /\ bqueue = <<>>
    /\ bcycles = 0
    /\ bused = 0
    /\ buffer = [c \in ClientIds |-> 0]
    /\ acceptor = "accept"
    /\ hashOf \in [ClientIds -> {305419896}]
    /\ blockResult = "none"
    /\ gpc = "idle"
    /\ gattempts = 0
    /\ tasks = [t \in {"session1", "session2", "payout", "backup"} |->
                   [pc |-> "idle", miners |-> [w \in {} |-> NoMiner],
                    worker |-> NoWorker, was_block |-> FALSE]]
    /\ ledger = [w \in Workers |-> [shares |-> 0, accepted |-> 0, blocks |-> 0, sent |-> 0]]
    /\ credited = [c \in ClientIds |-> {}]
    /\ lastJob = [c \in ClientIds |-> NoJob]

\* accept() and the start of handle_client
\* accept returns the connection of c and start hands it to a new thread,
\* whose first step is to register the session
Connect(c) ==
    /\ acceptor = "accept"
    /\ acceptor' = IF running THEN "accept" ELSE "done"
    /\ pc[c] = "new"
    /\ \A i \in 1..Len(ClientOrder) :
          ClientOrder[i] = c => \A j \in 1..(i - 1) : pc[ClientOrder[j]] # "new"
    /\ clients' = Put(c, NewSession(now))
    /\ pc' = [pc EXCEPT ![c] = "recv"]
    /\ UNCHANGED <<cur, sent, nreq, rpcTemplate, miners, sink, now, running,
                   bpc, bqueue, bcycles, bused, buffer, hashOf, tasks, ledger, gpc, gattempts, blockResult, credited, lastJob>>

\* recv returns no data: the finally block of handle_client
\* the peer resets the connection; the thread of c has not noticed yet
PeerResets(c) ==
    /\ pc[c] = "recv"
    /\ Registered(c)
    /\ pc' = [pc EXCEPT ![c] = "reset"]
    /\ UNCHANGED <<clients, cur, sent, nreq, rpcTemplate, miners, sink, now,
                   running, bpc, bqueue, bcycles, bused, buffer, acceptor, hashOf, tasks, ledger, gpc, gattempts, blockResult, credited, lastJob>>

Disconnect(c) ==
    /\ pc[c] \in {"recv", "reset"}
    /\ clients' = Remove(c)
    /\ pc' = [pc EXCEPT ![c] = "closed"]
    /\ cur' = [cur EXCEPT ![c] = NotReading]
    /\ sent' = Delivered(c)
    /\ buffer' = [buffer EXCEPT ![c] = 0]
    /\ UNCHANGED <<nreq, rpcTemplate, miners, sink, now, running,
                   bpc, bqueue, bcycles, bused, acceptor, hashOf, tasks, ledger, gpc, gattempts, blockResult, credited, lastJob>>

\* the subscriptions of the subscribe result
Subscriptions ==
    <<<<"mining.set_difficulty", "subscription_id">>,
      <<"mining.notify", "notification_id">>>>

\* a subscribe result announcing an extranonce2 of eight bytes
SubscribeResultWide(c) == <<Subscriptions, Extranonce1(c), 8>>

\* the result of mining.subscribe: subscriptions, extranonce1, extra_nonce2_size
SubscribeResult(c) == <<Subscriptions, Extranonce1(c), 4>>

\* mining.subscribe
Subscribe(c, req) ==
    /\ MayRead(c, req)
    /\ req.method = "mining.subscribe"
    /\ cur' = [cur EXCEPT ![c] = Reading(c, req)]
    /\ nreq' = [nreq EXCEPT ![c] = @ + 1]
    /\ clients' = [clients EXCEPT ![c].subscribed = TRUE]
    /\ sent' = SocketSend(Delivered(c), c,
                  Reply(nreq[c] + 1, "subscription", NoError, SubscribeResult(c)))
    /\ UNCHANGED <<pc, rpcTemplate, miners, sink, now, running, bpc, bqueue,
                   bcycles, bused, buffer, acceptor, hashOf, tasks, ledger, gpc, gattempts, blockResult, credited, lastJob>>

\* an authorize check that takes any password
PasswordAlwaysMatches(req) == req.password = req.password

\* password == self.config.get('join_password')
PasswordMatches(req) == req.password = join_password

\* mining.authorize with the right password, up to the sleep
AuthorizeAccept(c, req) ==
    /\ MayRead(c, req)
    /\ pc[c] = "recv"
    /\ req.method = "mining.authorize"
    /\ req.nparams >= 2
    /\ PasswordMatches(req)
    /\ cur' = [cur EXCEPT ![c] = Reading(c, req)]
    /\ nreq' = [nreq EXCEPT ![c] = @ + 1]
    /\ clients' = [clients EXCEPT ![c].authorized = TRUE, ![c].worker = req.worker]
    /\ sent' = SocketSend(Delivered(c), c, Reply(nreq[c] + 1, "true", NoError, <<>>))
    /\ pc' = [pc EXCEPT ![c] = "auth_sleep"]
    /\ UNCHANGED <<rpcTemplate, miners, sink, now, running, bpc, bqueue,
                   bcycles, bused, buffer, acceptor, hashOf, tasks, ledger, gpc, gattempts, blockResult, credited, lastJob>>

\* the rest of the authorize branch: initial difficulty and job
AuthorizeInitialJob(c) ==
    /\ pc[c] = "auth_sleep"
    /\ sent' = send_job_to_client(send_difficulty(sent, c, 10000), c)
    /\ credited' = CreditCleared(c)
    /\ lastJob' = JobNoted(c)
    /\ pc' = [pc EXCEPT ![c] = "recv"]
    /\ UNCHANGED <<clients, cur, nreq, rpcTemplate, miners, sink, now, running,
                   bpc, bqueue, bcycles, bused, buffer, acceptor, hashOf, tasks, ledger, gpc, gattempts, blockResult>>

\* mining.authorize with a wrong password
AuthorizeReject(c, req) ==
    /\ MayRead(c, req)
    /\ req.method = "mining.authorize"
    /\ req.nparams >= 2
    /\ ~PasswordMatches(req)
    /\ cur' = [cur EXCEPT ![c] = Reading(c, req)]
    /\ nreq' = [nreq EXCEPT ![c] = @ + 1]
    /\ sent' = SocketSend(Delivered(c), c,
                  Reply(nreq[c] + 1, "false", <<21, "Unauthorized worker">>, <<>>))
    /\ UNCHANGED <<clients, pc, rpcTemplate, miners, sink, now, running, bpc,
                   bqueue, bcycles, bused, buffer, acceptor, hashOf, tasks, ledger, gpc, gattempts, blockResult, credited, lastJob>>

\* mining.authorize with fewer than two params: the handler returns None
AuthorizeShort(c, req) ==
    /\ MayRead(c, req)
    /\ req.method = "mining.authorize"
    /\ req.nparams < 2
    /\ cur' = [cur EXCEPT ![c] = Reading(c, req)]
    /\ nreq' = [nreq EXCEPT ![c] = @ + 1]
    /\ sent' = Delivered(c)
    /\ UNCHANGED <<clients, pc, rpcTemplate, miners, sink, now, running,
                   bpc, bqueue, bcycles, bused, buffer, acceptor, hashOf, tasks, ledger, gpc, gattempts, blockResult, credited, lastJob>>

\* len(params) >= 5 and self.clients[client_id]['authorized']
\* a submit check that does not look at the session's authorized flag
SubmitAllowedAnyone(c, req) == req.nparams >= 5 /\ Registered(c)

SubmitAllowed(c, req) == req.nparams >= 5 /\ clients[c].authorized

\* the submit branch drops what validate_and_submit_block returned
SubmitReplyByVerdict(id, block_result) ==
    IF block_result = "False"
    THEN Reply(id, "false", <<23, "Unauthorized or invalid share">>, <<>>)
    ELSE Reply(id, "true", NoError, <<>>)

\* the reply of the submit branch; block_result is what
\* validate_and_submit_block returned, which the branch does not keep
SubmitReply(id, block_result) == Reply(id, "true", NoError, <<>>)

\* mining.submit taken as a share: validate, record, adjust the difficulty
\* submit_block answers a block handed to it with True (accepted, or no node
\* to ask) or False (rejected by the node, or the call raised)
SubmitShare(c, req) ==
    /\ MayRead(c, req)
    /\ pc[c] = "recv"
    /\ req.method = "mining.submit"
    /\ SubmitAllowed(c, req)
    /\ cur' = [cur EXCEPT ![c] = Reading(c, req)]
    /\ nreq' = [nreq EXCEPT ![c] = @ + 1]
    /\ sink' = validate_and_submit_block(sink, c, req)
    /\ blockResult' \in IF sink' = sink THEN {"none"}
                         ELSE {"True", "False"}
    /\ miners' = process_share(miners, req.worker)
    /\ credited' = [credited EXCEPT ![c] = @ \cup {ShareKey(req)}]
    /\ \E step \in ClockSteps :
          LET current_time == now + step
              session      == AdjustedSession(clients[c], current_time)
          IN  /\ now' = current_time
              /\ clients' = [clients EXCEPT ![c] = session]
              /\ IF ChangedSignificantly(session.difficulty, clients[c].difficulty)
                 THEN /\ sent' = send_difficulty(Delivered(c), c, session.difficulty)
                      /\ pc' = [pc EXCEPT ![c] = "vardiff_sleep"]
                 ELSE /\ sent' = SocketSend(Delivered(c), c,
                                    SubmitReply(nreq[c] + 1, blockResult'))
                      /\ pc' = pc
    /\ UNCHANGED <<rpcTemplate, running, bpc, bqueue, bcycles, bused, buffer, acceptor,
                   hashOf, tasks, ledger, gpc, gattempts, lastJob>>

\* the end of adjust_client_difficulty after a change, and the submit reply
VardiffJob(c) ==
    /\ pc[c] = "vardiff_sleep"
    /\ sent' = SocketSend(send_job_to_client(sent, c), c,
                          SubmitReply(cur[c].id, blockResult))
    /\ credited' = CreditCleared(c)
    /\ lastJob' = JobNoted(c)
    /\ pc' = [pc EXCEPT ![c] = "recv"]
    /\ UNCHANGED <<clients, cur, nreq, rpcTemplate, miners, sink, now, running,
                   bpc, bqueue, bcycles, bused, buffer, acceptor, hashOf, tasks, ledger, gpc, gattempts, blockResult>>

\* mining.submit refused
SubmitReject(c, req) ==
    /\ MayRead(c, req)
    /\ req.method = "mining.submit"
    /\ ~SubmitAllowed(c, req)
    /\ cur' = [cur EXCEPT ![c] = Reading(c, req)]
    /\ nreq' = [nreq EXCEPT ![c] = @ + 1]
    /\ sent' = SocketSend(Delivered(c), c,
                  Reply(nreq[c] + 1, "false",
                        <<23, "Unauthorized or invalid share">>, <<>>))
    /\ UNCHANGED <<clients, pc, rpcTemplate, miners, sink, now, running, bpc,
                   bqueue, bcycles, bused, buffer, acceptor, hashOf, tasks, ledger, gpc, gattempts, blockResult, credited, lastJob>>

\* an answer to an unknown method that reuses the error of a refused share
MethodRefusedAsShare(id) ==
    Reply(id, "false", <<23, "Unauthorized or invalid share">>, <<>>)

\* the answer to a method the server does not know
MethodNotFound(id) == Reply(id, "null", <<20, "Method not found">>, <<>>)

\* any other method
\* a line that is not JSON: json.loads raises, the handler prints and the
\* loop goes on to the next line
MalformedLine(c) ==
    /\ pc[c] = "recv"
    /\ nreq[c] < MaxRequests
    /\ cur' = [cur EXCEPT ![c] = NotReading]
    /\ nreq' = [nreq EXCEPT ![c] = @ + 1]
    /\ sent' = Delivered(c)
    /\ buffer' = [buffer EXCEPT ![c] = 0]
    /\ UNCHANGED <<clients, pc, rpcTemplate, miners, sink, now, running, bpc,
                   bqueue, bcycles, bused, acceptor, hashOf, tasks, ledger, gpc, gattempts, blockResult, credited, lastJob>>

UnknownMethod(c, req) ==
    /\ MayRead(c, req)
    /\ req.method \notin {"mining.subscribe", "mining.authorize", "mining.submit"}
    /\ cur' = [cur EXCEPT ![c] = Reading(c, req)]
    /\ nreq' = [nreq EXCEPT ![c] = @ + 1]
    /\ sent' = SocketSend(Delivered(c), c, MethodNotFound(nreq[c] + 1))
    /\ UNCHANGED <<clients, pc, rpcTemplate, miners, sink, now, running, bpc,
                   bqueue, bcycles, bused, buffer, acceptor, hashOf, tasks, ledger, gpc, gattempts, blockResult, credited, lastJob>>

\* the upstream node moves to its next template
NewTemplate ==
    /\ rpcTemplate < MaxTemplates
    /\ rpcTemplate' = rpcTemplate + 1
    /\ UNCHANGED <<clients, pc, cur, sent, nreq, miners, sink, now, running,
                   bpc, bqueue, bcycles, bused, buffer, acceptor, hashOf, tasks, ledger, gpc, gattempts, blockResult, credited, lastJob>>

\* the shutdown of the pool clears the flag of the server
Stop ==
    /\ running
    /\ running' = FALSE
    /\ UNCHANGED <<clients, pc, cur, sent, nreq, rpcTemplate, miners, sink, now,
                   bpc, bqueue, bcycles, bused, buffer, acceptor, hashOf, tasks, ledger, gpc, gattempts, blockResult, credited, lastJob>>

\* every client of the registry, in the order of the registry
RECURSIVE RegisteredFrom(_)
RegisteredFrom(i) ==
    IF i > Len(ClientOrder) THEN <<>>
    ELSE (IF Registered(ClientOrder[i]) THEN <<ClientOrder[i]>> ELSE <<>>)
           \o RegisteredFrom(i + 1)

\* the authorized clients, in the order of the registry
RECURSIVE AuthorizedFrom(_)
AuthorizedFrom(i) ==
    IF i > Len(ClientOrder) THEN <<>>
    ELSE LET c == ClientOrder[i]
         IN  (IF Registered(c) /\ clients[c].authorized THEN <<c>> ELSE <<>>)
               \o AuthorizedFrom(i + 1)

\* the broadcaster ends with its sweep
AfterSweepEnds == "done"

\* where the broadcaster goes once its sweep is over
AfterSweep == IF running THEN "sleep" ELSE "done"

\* job_broadcaster wakes up and starts to iterate over self.clients.items()
BroadcastIterate ==
    /\ bpc = "sleep"
    /\ bcycles < MaxBroadcasts
    /\ bcycles' = bcycles + 1
    /\ bused' = Cardinality(DOMAIN clients)
    /\ bpc' = "iterating"
    /\ UNCHANGED <<clients, pc, cur, sent, nreq, rpcTemplate, miners, sink,
                   now, running, bqueue, buffer, acceptor, hashOf, tasks, ledger, gpc, gattempts, blockResult, credited, lastJob>>

\* the dict iterator finds the size it started with: the list comprehension
\* ends with the list of authorized clients
BroadcastSnapshot ==
    /\ bpc = "iterating"
    /\ Cardinality(DOMAIN clients) = bused
    /\ bqueue' = AuthorizedFrom(1)
    /\ bpc' = IF Len(AuthorizedFrom(1)) = 0 THEN AfterSweep ELSE "sweep"
    /\ bused' = 0
    /\ UNCHANGED <<clients, pc, cur, sent, nreq, rpcTemplate, miners, sink,
                   now, running, bcycles, buffer, acceptor, hashOf, tasks, ledger, gpc, gattempts, blockResult, credited, lastJob>>

\* the dict iterator finds another size: RuntimeError("dictionary changed
\* size during iteration"), caught by the outer handler; nothing is sent
BroadcastSkipped ==
    /\ bpc = "iterating"
    /\ Cardinality(DOMAIN clients) # bused
    /\ bqueue' = <<>>
    /\ bpc' = AfterSweep
    /\ bused' = 0
    /\ UNCHANGED <<clients, pc, cur, sent, nreq, rpcTemplate, miners, sink,
                   now, running, bcycles, buffer, acceptor, hashOf, tasks, ledger, gpc, gattempts, blockResult, credited, lastJob>>

\* job_broadcaster builds the job of the next client of its list and enters
\* socket.send; a client that has left the registry is passed over
BroadcastSend ==
    /\ bpc = "sweep"
    /\ sent' = send_job_to_client(sent, Head(bqueue))
    /\ credited' = CreditCleared(Head(bqueue))
    /\ lastJob' = JobNoted(Head(bqueue))
    /\ bqueue' = IF Registered(Head(bqueue)) THEN bqueue ELSE Tail(bqueue)
    /\ bpc' = IF Registered(Head(bqueue)) THEN "writing"
              ELSE IF Len(bqueue) = 1 THEN AfterSweep ELSE "sweep"
    /\ UNCHANGED <<clients, pc, cur, nreq, rpcTemplate, miners, sink, now,
                   running, bcycles, bused, buffer, acceptor, hashOf, tasks, ledger, gpc, gattempts, blockResult>>

\* socket.send returns to job_broadcaster, which moves on to the next client
BroadcastSent ==
    /\ bpc = "writing"
    /\ bqueue' = Tail(bqueue)
    /\ bpc' = IF Len(bqueue) = 1 THEN AfterSweep ELSE "sweep"
    /\ UNCHANGED <<clients, pc, cur, sent, nreq, rpcTemplate, miners, sink,
                   now, running, bcycles, bused, buffer, acceptor, hashOf, tasks, ledger, gpc, gattempts, blockResult, credited, lastJob>>

Next ==
    \/ \E c \in ClientIds : Connect(c)
    \/ \E c \in ClientIds : Disconnect(c)
    \/ \E c \in ClientIds, req \in SubscribeRequests : Subscribe(c, req)
    \/ \E c \in ClientIds, req \in AuthorizeRequests : AuthorizeAccept(c, req)
    \/ \E c \in ClientIds : AuthorizeInitialJob(c)
    \/ \E c \in ClientIds, req \in AuthorizeRequests : AuthorizeReject(c, req)
    \/ \E c \in ClientIds, req \in AuthorizeRequests : AuthorizeShort(c, req)
    \/ \E c \in ClientIds, req \in SubmitRequests : SubmitShare(c, req)
    \/ \E c \in ClientIds : VardiffJob(c)
    \/ \E c \in ClientIds, req \in SubmitRequests : SubmitReject(c, req)
    \/ \E c \in ClientIds, req \in OtherRequests : UnknownMethod(c, req)
    \/ \E c \in ClientIds : MalformedLine(c)
    \/ NewTemplate
    \/ BroadcastIterate
    \/ BroadcastSnapshot
    \/ BroadcastSkipped
    \/ BroadcastSend
    \/ BroadcastSent

Spec == Init /\ [][Next]_vars

\* calls of get_block_template, the node answering or failing each time
GSpec == Init /\ [][GNext]_vars

-----------------------------------------------------------------------------
(* The broadcaster over a populated registry                                *)

\* a session after mining.subscribe and mining.authorize ["bc1qminer", pw]
MinerSession ==
    [NewSession(0) EXCEPT !.subscribed = TRUE, !.authorized = TRUE,
                          !.worker = "bc1qminer"]

\* a session after mining.authorize [null, pw]: its job cannot be built
NamelessSession == [NewSession(0) EXCEPT !.authorized = TRUE]

SessionKinds == {NewSession(0), MinerSession, NamelessSession}

\* the server with any registry of such sessions, their threads waiting in
\* recv, before a sweep; the frames sent so far have been delivered
BInit ==
    /\ \E registered \in SUBSET ClientIds : clients \in [registered -> SessionKinds]
    /\ pc = [c \in ClientIds |-> IF Registered(c) THEN "recv" ELSE "closed"]
    /\ cur = [c \in ClientIds |-> NotReading]
    /\ sent = [c \in ClientIds |-> <<>>]
    \* the sessions have read lines before; each may read one more
    /\ nreq = [c \in ClientIds |-> IF Registered(c) THEN MaxRequests - 1 ELSE 0]
    /\ rpcTemplate = 1
    /\ miners = [w \in {} |-> NoMiner]
    /\ sink = <<>>
    /\ now = 0
    /\ running = TRUE
    /\ bpc = "sleep"
    /\ bqueue = <<>>
    /\ bcycles = 0
    /\ bused = 0
    /\ buffer = [c \in ClientIds |-> 0]
    /\ acceptor = "accept"
    \* the first and the third id hash to different values, the second to
    \* either of them: ids with distinct hashes and ids with equal ones
    /\ hashOf \in [ClientIds -> HashValues]
    /\ hashOf[ClientOrder[1]] = 305419896
    /\ hashOf[ClientOrder[3]] = 19088743
    /\ blockResult = "none"
    /\ gpc = "idle"
    /\ gattempts = 0
    /\ tasks = [t \in {"session1", "session2", "payout", "backup"} |->
                   [pc |-> "idle", miners |-> [w \in {} |-> NoMiner],
                    worker |-> NoWorker, was_block |-> FALSE]]
    /\ ledger = [w \in Workers |-> [shares |-> 0, accepted |-> 0, blocks |-> 0, sent |-> 0]]
    /\ credited = [c \in ClientIds |-> {}]
    /\ lastJob = [c \in ClientIds |-> NoJob]

BNext ==
    \/ \E c \in ClientIds : PeerResets(c)
    \/ \E c \in ClientIds : Disconnect(c)
    \/ NewTemplate
    \/ Stop
    \/ BroadcastIterate
    \/ BroadcastSnapshot
    \/ BroadcastSkipped
    \/ BroadcastSend
    \/ BroadcastSent

BSpec == BInit /\ [][BNext]_vars

-----------------------------------------------------------------------------
(* adjust_client_difficulty over a run of accepted shares                   *)

MaxShares == 8

\* tenths of a second between two accepted shares: one for each branch of
\* the adjustment table; 0 is two shares within the same hundredth
ShareGaps == {0, 5, 30, 100, 300, 700}

\* one authorized session, right after its mining.authorize
VInit ==
    /\ clients = [c \in Callers |-> MinerSession]
    /\ pc = [c \in ClientIds |-> IF c \in Callers THEN "recv" ELSE "absent"]
    /\ cur = [c \in ClientIds |-> NotReading]
    /\ sent = [c \in ClientIds |-> <<>>]
    /\ nreq = [c \in ClientIds |-> 0]
    /\ rpcTemplate = 1
    /\ miners = [w \in {} |-> NoMiner]
    /\ sink = <<>>
    /\ now = 0
    /\ running = TRUE
    /\ bpc = "sleep"
    /\ bqueue = <<>>
    /\ bcycles = 0
    /\ bused = 0
    /\ buffer = [c \in ClientIds |-> 0]
    /\ acceptor = "accept"
    /\ hashOf \in [ClientIds -> {305419896}]
    /\ blockResult = "none"
    /\ gpc = "idle"
    /\ gattempts = 0
    /\ tasks = [t \in {"session1", "session2", "payout", "backup"} |->
                   [pc |-> "idle", miners |-> [w \in {} |-> NoMiner],
                    worker |-> NoWorker, was_block |-> FALSE]]
    /\ ledger = [w \in Workers |-> [shares |-> 0, accepted |-> 0, blocks |-> 0, sent |-> 0]]
    /\ credited = [c \in ClientIds |-> {}]
    /\ lastJob = [c \in ClientIds |-> NoJob]

\* StratumServer.adjust_client_difficulty for a share of c accepted step
\* tenths of a second after the last reading of the clock
AdjustClientDifficulty(c, step) ==
    /\ Registered(c)
    /\ pc[c] = "recv"
    /\ nreq[c] < MaxShares
    /\ step = 0 => \A i \in DOMAIN clients[c].share_times :
                      clients[c].share_times[i] = 0
    /\ nreq' = [nreq EXCEPT ![c] = @ + 1]
    /\ now' = now + step
    /\ clients' = [clients EXCEPT ![c] = AdjustedSession(clients[c], now + step)]
    /\ IF ChangedSignificantly(clients'[c].difficulty, clients[c].difficulty)
       THEN /\ sent' = send_job_to_client(
                          send_difficulty(Delivered(c), c, clients'[c].difficulty), c)
            /\ credited' = CreditCleared(c)
            /\ lastJob' = JobNoted(c)
       ELSE /\ sent' = Delivered(c)
            /\ UNCHANGED <<credited, lastJob>>
    /\ UNCHANGED <<pc, cur, rpcTemplate, miners, sink, running, bpc, bqueue,
                   bcycles, bused, buffer, acceptor, hashOf, tasks, ledger, gpc, gattempts, blockResult>>

VNext == \E c \in ClientIds, step \in ShareGaps : AdjustClientDifficulty(c, step)

VSpec == VInit /\ [][VNext]_vars

-----------------------------------------------------------------------------
(* The accept loop of start and the receive loop of handle_client          *)

MaxBuffer == 67584

\* recv returns 1024 bytes without a newline: they are added to the buffer
ReceiveChunk(c) ==
    /\ pc[c] = "recv"
    /\ buffer[c] + 1024 <= MaxBuffer
    /\ buffer' = [buffer EXCEPT ![c] = @ + 1024]
    /\ UNCHANGED <<clients, pc, cur, sent, nreq, rpcTemplate, miners, sink, now,
                   running, bpc, bqueue, bcycles, bused, acceptor, hashOf, tasks, ledger, gpc, gattempts, blockResult, credited,
                   lastJob>>

\* the listening socket is closed while the accept loop waits in accept
CloseListener ==
    /\ acceptor = "accept"
    /\ acceptor' = "closed"
    /\ UNCHANGED <<clients, pc, cur, sent, nreq, rpcTemplate, miners, sink, now,
                   running, bpc, bqueue, bcycles, bused, buffer, hashOf, tasks, ledger, gpc, gattempts, blockResult, credited,
                   lastJob>>

\* accept raises on the closed socket; the handler prints while the server
\* is running, and the loop tests the flag before it calls accept again
AcceptRaises ==
    /\ acceptor \in {"closed", "retrying"}
    /\ acceptor' = IF running THEN "retrying" ELSE "done"
    /\ UNCHANGED <<clients, pc, cur, sent, nreq, rpcTemplate, miners, sink, now,
                   running, bpc, bqueue, bcycles, bused, buffer, hashOf, tasks, ledger, gpc, gattempts, blockResult, credited,
                   lastJob>>

RNext ==
    \/ Stop
    \/ CloseListener
    \/ AcceptRaises
    \/ \E c \in ClientIds : Connect(c)
    \/ \E c \in ClientIds : ReceiveChunk(c)
    \/ \E c \in ClientIds : MalformedLine(c)
    \/ \E c \in ClientIds, req \in OtherRequests : UnknownMethod(c, req)
    \/ \E c \in ClientIds : PeerResets(c)
    \/ \E c \in ClientIds : Disconnect(c)

RSpec == Init /\ [][RNext]_vars

\* the same registry with its sessions reading lines that are not JSON, their
\* peers resetting, the broadcaster sweeping and the listener failing
ENext ==
    \/ \E c \in ClientIds : MalformedLine(c)
    \/ \E c \in ClientIds : PeerResets(c)
    \/ CloseListener
    \/ AcceptRaises
    \/ BroadcastIterate
    \/ BroadcastSnapshot
    \/ BroadcastSend
    \/ BroadcastSent

ESpec == BInit /\ [][ENext]_vars

-----------------------------------------------------------------------------
(* The miner store under its threads: models.load_miners / save_miners      *)

\* how many shares the session threads record
MaxSubmits == 3

\* how many payments a worker is sent
MaxPayments == 2

\* load_miners: the thread reads miners.json into a dict of its own; a session
\* thread does so in process_share for the worker named in its submit, after
\* validate_and_submit_block has told whether the share is a block
StoreLoad(t, w, was_block) ==
    /\ tasks[t].pc = "idle"
    /\ t \in {"payout", "backup"} => (w = NoWorker /\ ~was_block)
    /\ t = "payout" => \A x \in Workers : ledger[x].sent < MaxPayments * block_reward
    /\ t \in {"session1", "session2"} =>
          /\ w \in Workers
          /\ ledger["bc1qminer"].accepted + ledger["1Legacy"].accepted
                + Cardinality({s \in {"session1", "session2"} : tasks[s].pc = "loaded"})
                < MaxSubmits
    /\ tasks' = [tasks EXCEPT ![t] = [pc |-> "loaded", miners |-> miners,
                                      worker |-> w, was_block |-> was_block]]
    /\ UNCHANGED <<clients, pc, cur, sent, nreq, rpcTemplate, miners, sink, now,
                   running, bpc, bqueue, bcycles, bused, buffer, acceptor, hashOf,
                   ledger, gpc, gattempts, blockResult, credited, lastJob>>

\* the rest of process_share: the share is counted in the dict that was
\* loaded and save_miners writes that dict over the file
ShareSave(t) ==
    /\ t \in {"session1", "session2"}
    /\ tasks[t].pc = "loaded"
    /\ miners' = process_share(tasks[t].miners, tasks[t].worker)
    /\ ledger' = [ledger EXCEPT ![tasks[t].worker].shares = @ + 1,
                                ![tasks[t].worker].accepted = @ + 1,
                                ![tasks[t].worker].blocks =
                                    IF (tasks[t].miners[tasks[t].worker].shares + 1) % 1000 = 0
                                    THEN @ + 1 ELSE @]
    /\ tasks' = [tasks EXCEPT ![t] = [pc |-> "idle", miners |-> [w \in {} |-> NoMiner],
                                      worker |-> NoWorker, was_block |-> FALSE]]
    /\ UNCHANGED <<clients, pc, cur, sent, nreq, rpcTemplate, sink, now,
                   running, bpc, bqueue, bcycles, bused, buffer, acceptor, hashOf,
                   gpc, gattempts, blockResult, credited, lastJob>>

\* the rest of a round of payout_processor: every address whose
\* immature_balance has reached min_payout is paid by send_to_address, unless
\* that call raises; the dict is saved when a payment was made or a block
\* has aged into confirmed
PayoutSave ==
    /\ tasks["payout"].pc = "loaded"
    /\ \E failing \in SUBSET Workers, aged \in BOOLEAN :
          LET loaded == tasks["payout"].miners
              due    == {w \in DOMAIN loaded :
                            /\ loaded[w].immature_balance >= min_payout
                            /\ w \notin failing}
              changed == \/ due # {}
                         \/ aged /\ \E w \in DOMAIN loaded : loaded[w].blocks > 0
          IN  /\ failing \subseteq {w \in DOMAIN loaded :
                                         loaded[w].immature_balance >= min_payout}
              /\ aged => \E w \in DOMAIN loaded : loaded[w].blocks > 0
              /\ ledger' = [w \in Workers |->
                               IF w \in due
                               THEN [ledger[w] EXCEPT
                                        !.sent = @ + loaded[w].immature_balance]
                               ELSE ledger[w]]
              /\ miners' = IF changed
                           THEN [w \in DOMAIN loaded |->
                                    IF w \in due
                                    THEN [loaded[w] EXCEPT
                                             !.paid = @ + loaded[w].immature_balance,
                                             !.immature_balance = 0]
                                    ELSE loaded[w]]
                           ELSE miners
    /\ tasks' = [tasks EXCEPT !["payout"] =
                     [pc |-> "idle", miners |-> [w \in {} |-> NoMiner],
                      worker |-> NoWorker, was_block |-> FALSE]]
    /\ UNCHANGED <<clients, pc, cur, sent, nreq, rpcTemplate, sink, now,
                   running, bpc, bqueue, bcycles, bused, buffer, acceptor, hashOf,
                   gpc, gattempts, blockResult, credited, lastJob>>

\* the rest of a round of backup_service: the dict that was loaded is saved
BackupSave ==
    /\ tasks["backup"].pc = "loaded"
    /\ miners' = tasks["backup"].miners
    /\ tasks' = [tasks EXCEPT !["backup"] =
                     [pc |-> "idle", miners |-> [w \in {} |-> NoMiner],
                      worker |-> NoWorker, was_block |-> FALSE]]
    /\ UNCHANGED <<clients, pc, cur, sent, nreq, rpcTemplate, sink, now,
                   running, bpc, bqueue, bcycles, bused, buffer, acceptor, hashOf,
                   ledger, gpc, gattempts, blockResult, credited, lastJob>>

\* the pool with a store of earlier runs: each worker has a record, one share
\* or one share short of a thousand; the ledger starts from these counts
SInit ==
    /\ clients = [c \in {} |-> NewSession(0)]
    /\ pc = [c \in ClientIds |-> IF c \in Callers THEN "new" ELSE "absent"]
    /\ cur = [c \in ClientIds |-> NotReading]
    /\ sent = [c \in ClientIds |-> <<>>]
    /\ nreq = [c \in ClientIds |-> 0]
    /\ rpcTemplate = 1
    /\ \E counts \in [Workers -> {1, 999}] :
          /\ miners = [w \in Workers |-> [NoMiner EXCEPT !.shares = counts[w]]]
          /\ ledger = [w \in Workers |->
                          [shares |-> counts[w], accepted |-> 0, blocks |-> 0,
                           sent |-> 0]]
    /\ sink = <<>>
    /\ now = 0
    /\ running = TRUE
    /\ bpc = "sleep"
    /\ bqueue = <<>>
    /\ bcycles = 0
    /\ bused = 0
    /\ buffer = [c \in ClientIds |-> 0]
    /\ acceptor = "accept"
    /\ hashOf \in [ClientIds -> {305419896}]
    /\ blockResult = "none"
    /\ gpc = "idle"
    /\ gattempts = 0
    /\ tasks = [t \in {"session1", "session2", "payout", "backup"} |->
                   [pc |-> "idle", miners |-> [w \in {} |-> NoMiner],
                    worker |-> NoWorker, was_block |-> FALSE]]
    /\ credited = [c \in ClientIds |-> {}]
    /\ lastJob = [c \in ClientIds |-> NoJob]

SNext ==
    \/ \E t \in {"session1", "session2", "payout", "backup"},
          w \in Workers \cup {NoWorker}, was_block \in BOOLEAN :
             StoreLoad(t, w, was_block)
    \/ \E t \in {"session1", "session2"} : ShareSave(t)
    \/ PayoutSave
    \/ BackupSave

SSpec == SInit /\ [][SNext]_vars

-----------------------------------------------------------------------------
(* Properties                                                               *)

\* the thread of c reads a line in this step, and it is a call of method
Reads(c, method) ==
    /\ nreq'[c] = nreq[c] + 1
    /\ cur'[c].request.method = method

RejectedShare(id) ==
    Reply(id, "false", <<23, "Unauthorized or invalid share">>, <<>>)

\* C1: a mining.submit read while the session is not authorized is answered
\* with result=false and error code 23 and nothing else happens: no share is
\* recorded, no block is submitted, and the session (difficulty, share_times,
\* last_share_time) stays as it was.
C1_UnauthorizedSubmitRejected ==
    [][\A c \in ClientIds :
          (Reads(c, "mining.submit") /\ ~clients[c].authorized)
          => /\ sent'[c] = <<RejectedShare(cur'[c].id)>>
             /\ miners' = miners
             /\ sink' = sink
             /\ credited' = credited
             /\ clients' = clients
             /\ pc'[c] = "recv"]_vars

\* C1 witness: a well-formed submit has been refused on a session that is not
\* authorized.
C1_Witness ==
    \E c \in ClientIds :
        /\ Registered(c)
        /\ ~clients[c].authorized
        /\ cur[c].request.method = "mining.submit"
        /\ cur[c].request.nparams = 5
        /\ sent[c] = <<RejectedShare(cur[c].id)>>

\* C2 (as claimed): every registered session that is authorized is subscribed.
C2_AuthorizedImpliesSubscribed ==
    \A c \in DOMAIN clients : clients[c].authorized => clients[c].subscribed

\* C3 (as claimed): the frames written to a session since it sent a
\* mining.authorize with the configured password begin with the reply
\* result=true, then mining.set_difficulty [10000], then a mining.notify with
\* clean_jobs=true, and all three are there once the handler has returned.
C3_AuthorizeFrameOrder ==
    \A c \in ClientIds :
        (/\ cur[c].request.method = "mining.authorize"
         /\ cur[c].request.nparams >= 2
         /\ cur[c].request.password = join_password)
        => LET f == sent[c]
           IN  /\ Len(f) >= 1 =>
                    f[1] = Reply(cur[c].id, "true", NoError, <<>>)
               /\ Len(f) >= 2 => f[2] = SetDifficulty(10000)
               /\ Len(f) >= 3 => (IsNotify(f[3]) /\ f[3].clean_jobs)
               /\ pc[c] = "recv" => Len(f) >= 3

\* C4: a mining.authorize with a password other than the configured one is
\* answered with result=false and error [21, "Unauthorized worker"], leaves
\* the registry and the session as they were, pushes no other frame, and
\* leaves the thread reading its socket.
C4_WrongPasswordRejected ==
    [][\A c \in ClientIds :
          (/\ Reads(c, "mining.authorize")
           /\ cur'[c].request.nparams >= 2
           /\ cur'[c].request.password # join_password)
          => /\ sent'[c] = <<Reply(cur'[c].id, "false",
                                   <<21, "Unauthorized worker">>, <<>>)>>
             /\ clients' = clients
             /\ pc'[c] = "recv"
             /\ Registered(c)
             /\ lastJob' = lastJob]_vars

\* C4 witness: a wrong password has been refused, on a session that had been
\* authorized before and on one that had not.
C4_Witness ==
    \E c \in ClientIds :
        /\ Registered(c)
        /\ cur[c].request.method = "mining.authorize"
        /\ cur[c].request.password = "bad"
        /\ clients[c].authorized
        /\ sent[c] = <<Reply(cur[c].id, "false", <<21, "Unauthorized worker">>, <<>>)>>

\* C5 (as claimed): a submit on an authorized session whose job_id is not
\* the job_id of the last mining.notify sent to the session is answered
\* result=false with code 23 and no share is recorded.
C5_StaleJobRejected ==
    [][\A c \in ClientIds :
          (/\ Reads(c, "mining.submit")
           /\ cur'[c].request.nparams >= 5
           /\ clients[c].authorized
           /\ cur'[c].request.job_id # lastJob[c])
          => /\ sent'[c] = <<RejectedShare(cur'[c].id)>>
             /\ miners' = miners]_vars

\* C6 (as claimed): a submit for the session's current job that repeats a
\* (job_id, extranonce2, ntime, nonce) already credited on the session, with
\* no mining.notify sent to the session since, is answered result=false with
\* code 23 and no share is recorded.
C6_DuplicateRejected ==
    [][\A c \in ClientIds :
          (/\ Reads(c, "mining.submit")
           /\ cur'[c].request.nparams >= 5
           /\ clients[c].authorized
           /\ cur'[c].request.job_id = lastJob[c]
           /\ ShareKey(cur'[c].request) \in credited[c])
          => /\ sent'[c] = <<RejectedShare(cur'[c].id)>>
             /\ miners' = miners]_vars

\* the hash value of the specification: the double SHA-256 of the header,
\* byte-reversed, read as a big-endian integer
HashValue(header) == Reverse(double_sha256(header))

\* the header of the submit that the thread of c reads in this step
ReadHeader(c) == SubmitHeader(c, cur'[c].request, get_block_template)

\* C7 (as claimed): a share is recorded for a submit of the session's current
\* job only when the hash value is below the pool target of the session's
\* difficulty.
C7_BelowPoolTarget ==
    [][\A c \in ClientIds :
          (/\ Reads(c, "mining.submit")
           /\ cur'[c].request.job_id = lastJob[c]
           /\ miners' # miners)
          => LessBE(HashValue(ReadHeader(c)),
                    TargetOfDifficulty(clients[c].difficulty))]_vars

\* the block of the submit that the thread of c reads in this step
ReadBlock(c) ==
    LET template == get_block_template
    IN  ReadHeader(c)
          \o TxCountBytes(1 + Len(template.transactions))
          \o SubmitCoinbase(c, cur'[c].request, template)
          \o TxData(template.transactions, 1)

\* C8 (as claimed, for the submits of the current job on an authorized
\* session, those that reach the validator): the block sink
\* gets header || varint(1 + transactions) || coinbase || transaction data,
\* once, if the hash value is below the network target of the template, and
\* the handler goes on to answer result=true; it gets nothing otherwise.
C8_BlockSink ==
    [][\A c \in ClientIds :
          (/\ Reads(c, "mining.submit")
           /\ cur'[c].request.nparams >= 5
           /\ clients[c].authorized
           /\ cur'[c].request.job_id = lastJob[c])
          => IF LessBE(HashValue(ReadHeader(c)), NetworkTarget(get_block_template))
             THEN /\ sink' = Append(sink, ToHex(ReadBlock(c)))
                  /\ Len(ReadHeader(c)) = 80
                  /\ \/ pc'[c] = "vardiff_sleep"
                     \/ sent'[c] = <<Reply(cur'[c].id, "true", NoError, <<>>)>>
             ELSE sink' = sink]_vars

\* C9 (as claimed): for every submit of the current job on an authorized
\* session, the integer compared against the network target is the
\* byte-reversed double SHA-256 of the header read big-endian, the value
\* whose hex is the displayed block hash.
C9_HashIsReversedDigest ==
    [][\A c \in ClientIds :
          (/\ Reads(c, "mining.submit")
           /\ cur'[c].request.nparams >= 5
           /\ clients[c].authorized
           /\ cur'[c].request.job_id = lastJob[c])
          => LET block_hash == double_sha256(ReadHeader(c))
             IN  /\ BlockHashInt(block_hash) = HashValue(ReadHeader(c))
                 /\ ToHex(BlockHashInt(block_hash)) = BlockHashHex(block_hash)]_vars

\* the template a job id names
TemplateOfJob(job_id) ==
    Template(CHOOSE i \in 1..MaxTemplates : JobId(Template(i).height) = job_id)

\* C10 (as claimed): for every mining.notify written to a session and every
\* extranonce2, coinb1 || extranonce2 || coinb2 is the coinbase transaction
\* built for that template, session and extranonce2.
C10_CoinbaseSplit ==
    \A c \in DOMAIN clients :
        \A k \in 1..Len(sent[c]) :
            (IsNotify(sent[c][k]) /\ clients[c].worker # NoWorker)
            => \A e \in ExtraNonce2s :
                  FromHex(sent[c][k].coinb1) \o FromHex(e) \o FromHex(sent[c][k].coinb2)
                  = build_coinbase_tx(TemplateOfJob(sent[c][k].job_id),
                                      Extranonce1(c), FromHex(e), clients[c].worker)

\* the Merkle root a miner computes: the coinbase hash folded over the branch
\* of the mining.notify, h := dSHA256(h || sibling), in the order sent
RECURSIVE ClientMerkleRoot(_, _, _)
ClientMerkleRoot(h, merkle_branch, i) ==
    IF i > Len(merkle_branch) THEN h
    ELSE ClientMerkleRoot(double_sha256(h \o FromHex(merkle_branch[i])),
                          merkle_branch, i + 1)

\* C11 (as claimed): for every mining.notify written to a session, the Merkle
\* root the validator computes for the job's template from a coinbase hash
\* equals the root a miner gets by folding that coinbase hash over the
\* merkle branch of the notify.
C11_MerkleRootAgrees ==
    \A c \in DOMAIN clients :
        \A k \in 1..Len(sent[c]) :
            (IsNotify(sent[c][k]) /\ clients[c].worker # NoWorker)
            => \A e \in ExtraNonce2s :
                  LET template      == TemplateOfJob(sent[c][k].job_id)
                      coinbase_hash == double_sha256(
                                          build_coinbase_tx(template, Extranonce1(c),
                                                            FromHex(e), clients[c].worker))
                  IN  ClientMerkleRoot(coinbase_hash, sent[c][k].merkle_branch, 1)
                        = build_merkle_root(coinbase_hash, template.transactions)

\* C12 (as claimed): the header the validator assembles for a submit of the
\* session's current job is the header of the template that job was built
\* from, whatever the upstream template has become since the mining.notify.
C12_HeaderFromJobContext ==
    [][\A c \in ClientIds :
          (/\ Reads(c, "mining.submit")
           /\ cur'[c].request.nparams >= 5
           /\ clients[c].authorized
           /\ lastJob[c] # NoJob
           /\ cur'[c].request.job_id = lastJob[c])
          => ReadHeader(c)
               = SubmitHeader(c, cur'[c].request, TemplateOfJob(lastJob[c]))]_vars

\* the positions of the reply frames written to c since its last request
ReplyPositions(c) == {k \in 1..Len(sent[c]) : IsReply(sent[c][k])}

\* C13 (as claimed): a request gets exactly one reply frame, carrying the
\* request's id: never more than one while the handler runs, and one once
\* the handler has returned and the thread reads its socket again.
C13_ExactlyOneReply ==
    \A c \in ClientIds :
        cur[c] # NotReading
        => /\ Cardinality(ReplyPositions(c)) <= 1
           /\ \A k \in ReplyPositions(c) : sent[c][k].id = cur[c].id
           /\ pc[c] = "recv" => Cardinality(ReplyPositions(c)) = 1

\* C14: a request whose method is none of mining.subscribe, mining.authorize
\* and mining.submit is answered with result null and error
\* [20, "Method not found"], whatever the state of the session, and the
\* registry, the shares and the blocks stay as they were.
C14_UnknownMethodRejected ==
    [][\A c \in ClientIds :
          (/\ nreq'[c] = nreq[c] + 1
           /\ cur'[c] # NotReading
           /\ cur'[c].request.method
                 \notin {"mining.subscribe", "mining.authorize", "mining.submit"})
          => /\ sent'[c] = <<Reply(cur'[c].id, "null",
                                   <<20, "Method not found">>, <<>>)>>
             /\ clients' = clients
             /\ miners' = miners
             /\ sink' = sink
             /\ pc'[c] = "recv"]_vars

\* C14 witness: an unknown method has been answered on a session that is
\* subscribed and authorized.
C14_Witness ==
    \E c \in ClientIds :
        /\ Registered(c)
        /\ clients[c].authorized
        /\ clients[c].subscribed
        /\ cur[c].request.method = "mining.extranonce.subscribe"
        /\ sent[c] = <<Reply(cur[c].id, "null", <<20, "Method not found">>, <<>>)>>

\* C15: mining.subscribe is answered, in any session state, with the result
\* [subscriptions, extranonce1, 4] and no error, extranonce1 being the eight
\* hex characters of the session; the session becomes subscribed and nothing
\* else in the registry changes.
C15_SubscribeEffect ==
    [][\A c \in ClientIds :
          Reads(c, "mining.subscribe")
          => /\ sent'[c] = <<Reply(cur'[c].id, "subscription", NoError,
                                   <<Subscriptions, Hex08(hashOf[c]), 4>>)>>
             /\ Len(Hex08(hashOf[c])) = 8
             /\ clients' = [clients EXCEPT ![c].subscribed = TRUE]
             /\ pc'[c] = "recv"]_vars

\* C15 witness: a subscribe has been answered on a session that was already
\* authorized, and the session is subscribed and still authorized.
C15_Witness ==
    \E c \in ClientIds :
        /\ Registered(c)
        /\ clients[c].authorized
        /\ clients[c].subscribed
        /\ clients[c].worker = "bc1qminer"
        /\ cur[c].request.method = "mining.subscribe"
        /\ Len(sent[c]) = 1
        /\ sent[c][1].result = "subscription"

\* job_broadcaster is inside socket.send on the socket of c
BroadcastWriting(c) == bpc = "writing" /\ Head(bqueue) = c

\* the thread of the session of c puts a frame on the socket of c in this step
SessionWrites(c) == bpc' = bpc /\ sent'[c] # sent[c] /\ sent'[c] # <<>>

\* C16: the writes to a session's socket are serialized: while the broadcast
\* loop is writing a frame to the socket of a session, the session's own
\* thread writes no frame to that socket
C16_WritesSerialized ==
    [][\A c \in ClientIds : BroadcastWriting(c) => ~SessionWrites(c)]_vars

\* job_broadcaster is iterating over the registry
BroadcastIterating == bpc = "iterating"

\* C17: the registry is accessed under mutual exclusion: while the broadcast
\* loop iterates over it no session thread inserts or removes a session, and
\* no sweep is given up because the registry changed during the iteration
C17_RegistryExclusive ==
    [][BroadcastIterating =>
          /\ DOMAIN clients' = DOMAIN clients
          /\ Cardinality(DOMAIN clients) = bused]_vars

\* job_broadcaster takes a step
BroadcastStep == bpc' # bpc \/ bqueue' # bqueue

\* the authorized sessions of the registry
AuthorizedSessions == {c \in DOMAIN clients : clients[c].authorized}

\* socket.send on the socket of c succeeds
Writable(c) == Registered(c) /\ pc[c] # "reset"

\* the job a sweep sends to c now: built from the template served now, or the
\* fallback job when the job of c cannot be built
FreshNotify(c, frame) ==
    /\ IsNotify(frame)
    /\ frame.job_id = IF clients[c].worker = NoWorker THEN JobId(now \div 10)
                      ELSE JobId(get_block_template.height)

\* C18: in a broadcast cycle the snapshot holds exactly the authorized
\* sessions; each session of the snapshot that is still registered is sent
\* one fresh mining.notify when its turn comes, unless the send fails; no
\* other session is sent anything; and after a session that has left or
\* whose send failed the sweep goes on with the rest of the snapshot
C18_SweepServesSnapshot ==
    [][/\ (BroadcastIterating /\ BroadcastStep /\ Cardinality(DOMAIN clients) = bused) =>
            /\ {bqueue'[i] : i \in DOMAIN bqueue'} = AuthorizedSessions
            /\ Len(bqueue') = Cardinality(AuthorizedSessions)
       /\ (bpc = "sweep" /\ BroadcastStep) =>
            /\ Writable(Head(bqueue)) =>
                 /\ clients[Head(bqueue)].authorized
                 /\ Len(sent'[Head(bqueue)]) = Len(sent[Head(bqueue)]) + 1
                 /\ SubSeq(sent'[Head(bqueue)], 1, Len(sent[Head(bqueue)])) = sent[Head(bqueue)]
                 /\ FreshNotify(Head(bqueue), sent'[Head(bqueue)][Len(sent'[Head(bqueue)])])
            /\ ~Writable(Head(bqueue)) => sent'[Head(bqueue)] = sent[Head(bqueue)]
            /\ \A d \in ClientIds \ {Head(bqueue)} : sent'[d] = sent[d]
       /\ (bpc \in {"sweep", "writing"}) =>
            /\ bqueue' \in {bqueue, Tail(bqueue)}
            /\ (bqueue' # <<>>) <=> (bpc' \in {"sweep", "writing"})
      ]_vars

\* a sweep is over: the first session was authorized but its socket was
\* reset and it got nothing, the second is not authorized and got nothing,
\* the third, after them in the snapshot, got its job
C18_Witness ==
    /\ bpc = "sleep" /\ bcycles = 1
    /\ DOMAIN clients = ClientIds
    /\ clients[ClientOrder[1]].authorized /\ pc[ClientOrder[1]] = "reset"
    /\ sent[ClientOrder[1]] = <<>>
    /\ ~clients[ClientOrder[2]].authorized /\ sent[ClientOrder[2]] = <<>>
    /\ clients[ClientOrder[3]].authorized
    /\ Len(sent[ClientOrder[3]]) = 1 /\ IsNotify(sent[ClientOrder[3]][1])

\* there is no RPC connection: get_block_template returns its dummy template
TemplateUnavailable == get_block_template = DummyTemplate

\* C19: while the template provider fails, a step of the broadcast loop sends
\* no frame to any session, leaves every session as it is (the authorized
\* ones stay authorized) and does not end the loop
C19_TickSkippedWhenUnavailable ==
    [][(TemplateUnavailable /\ BroadcastStep) =>
          /\ sent' = sent
          /\ clients' = clients
          /\ bpc' # "done"]_vars

\* C20: after any run of accepted shares, whatever the time between them,
\* the difficulty of every session is within [MinDifficulty, MaxDifficulty]
C20_DifficultyWithinBounds ==
    \A c \in DOMAIN clients :
        /\ clients[c].difficulty >= MinDifficulty
        /\ clients[c].difficulty <= MaxDifficulty

\* a session brought down to the lower bound by a slow share
C20_Witness ==
    \E c \in DOMAIN clients :
        /\ clients[c].difficulty = MinDifficulty
        /\ Len(clients[c].share_times) = 5
        /\ clients[c].share_times[5] > 600

\* C21: on each accepted share the new difficulty is the value of the table
\* for the time dt since the last share (in tenths of a second), cut at
\* MaxDifficulty: below 1 s D*30/max(dt, 0.01), which is never less than
\* D*10; from 1 s to 5 s D*30/dt, which is never less than D*5; from 5 s to
\* 15 s D*2; from 15 s to 45 s D; above 60 s max(MinDifficulty, D*0.7).
\* Hence a share 30 s after the last leaves D as it is, and after five shares
\* 0.5 s apart from D = 10000 the difficulty is at least ten times that
C21_TableValue ==
    [][\A c \in DOMAIN clients :
          nreq'[c] = nreq[c] + 1 =>
             LET D    == clients[c].difficulty
                 dt   == now' - clients[c].last_share_time
                 Dnew == clients'[c].difficulty
             IN  /\ dt = 0 => Dnew = Min(Scale(D, 3000, 1), MaxDifficulty)
                 /\ (0 < dt /\ dt < 50) =>
                       /\ Dnew = Min(Scale(D, 300, dt), MaxDifficulty)
                       /\ Dnew >= Min(Scale(D, 5, 1), MaxDifficulty)
                 /\ (0 < dt /\ dt < 10) => Dnew >= Min(Scale(D, 10, 1), MaxDifficulty)
                 /\ (50 <= dt /\ dt < 150) => Dnew = Min(Scale(D, 2, 1), MaxDifficulty)
                 /\ (150 <= dt /\ dt <= 450) => Dnew = D
                 /\ dt > 600 => Dnew = Max(MinDifficulty, Scale(D, 7, 10))
                 /\ (nreq'[c] = 5 /\ clients'[c].share_times = <<5, 5, 5, 5, 5>>) =>
                       Dnew >= 10 * 10000]_vars

\* five shares 0.5 s apart from D = 10000 have been adjusted for
C21_Witness ==
    \E c \in DOMAIN clients :
        /\ nreq[c] = 5
        /\ clients[c].share_times = <<5, 5, 5, 5, 5>>
        /\ clients[c].difficulty = MaxDifficulty

\* C22: when an accepted share changes the difficulty of its session by more
\* than 5% of the previous value, the server sends mining.set_difficulty with
\* the new value and, after its pause, a mining.notify with clean_jobs true,
\* in that order; when the change is at most 5%, it sends neither
C22_SignificantChangeAnnounced ==
    [][\A c \in ClientIds :
          /\ (Reads(c, "mining.submit") /\ cur'[c].request.nparams >= 5
                /\ clients[c].authorized) =>
                IF 20 * Abs(clients'[c].difficulty - clients[c].difficulty)
                      > clients[c].difficulty
                THEN /\ sent'[c] = <<SetDifficulty(clients'[c].difficulty)>>
                     /\ pc'[c] = "vardiff_sleep"
                ELSE /\ \A k \in 1..Len(sent'[c]) : IsReply(sent'[c][k])
                     /\ pc'[c] = "recv"
          /\ (pc[c] = "vardiff_sleep" /\ pc'[c] # "vardiff_sleep") =>
                /\ sent[c][1] = SetDifficulty(clients[c].difficulty)
                /\ Len(sent'[c]) = Len(sent[c]) + 2
                /\ SubSeq(sent'[c], 1, Len(sent[c])) = sent[c]
                /\ IsNotify(sent'[c][Len(sent[c]) + 1])
                /\ sent'[c][Len(sent[c]) + 1].clean_jobs = TRUE]_vars

\* a share 0.5 s after the authorization has raised the difficulty from 10000
\* to 600000: set_difficulty, the job and the reply have been sent
C22_Witness ==
    \E c \in DOMAIN clients :
        /\ pc[c] = "recv"
        /\ cur[c].request.method = "mining.submit"
        /\ Len(sent[c]) = 3
        /\ sent[c][1] = SetDifficulty(600000)
        /\ IsNotify(sent[c][2]) /\ IsReply(sent[c][3])

\* C23: within a session one 4-byte extranonce1 is used throughout: every
\* mining.subscribe reply announces it (as 8 hex digits), the coinbase of
\* every job sent to the session carries these 4 bytes where the coinbase
\* script has its extranonce1, right before the 4 bytes of extranonce2, and
\* so does the coinbase rebuilt for a submit
C23_OneExtranonce1 ==
    \A c \in DOMAIN clients :
        /\ \A k \in 1..Len(sent[c]) :
              /\ (IsReply(sent[c][k]) /\ sent[c][k].result = "subscription") =>
                    /\ sent[c][k].detail[2] = Extranonce1(c)
                    /\ Len(FromHex(sent[c][k].detail[2])) = 4
              /\ (IsNotify(sent[c][k]) /\ clients[c].worker # NoWorker) =>
                    \A e \in ExtraNonce2s :
                       LET template == TemplateOfJob(sent[c][k].job_id)
                           coinbase_tx == build_coinbase_tx(template, Extranonce1(c),
                                                            FromHex(e), clients[c].worker)
                           at == 42 + Len(HeightBytes(template.height))
                       IN  /\ SubSeq(coinbase_tx, at + 1, at + 4) = FromHex(Extranonce1(c))
                           /\ SubSeq(coinbase_tx, at + 5, at + 8) = FromHex(e)
        /\ (cur[c].request.method = "mining.submit" /\ cur[c].request.nparams >= 5
              /\ clients[c].authorized) =>
              LET coinbase_tx == SubmitCoinbase(c, cur[c].request, get_block_template)
                  at == 42 + Len(HeightBytes(get_block_template.height))
              IN  /\ SubSeq(coinbase_tx, at + 1, at + 4) = FromHex(Extranonce1(c))
                  /\ SubSeq(coinbase_tx, at + 5, at + 8) = FromHex(cur[c].request.extra_nonce2)

\* C24: no two sessions of the registry have the same extranonce1
C24_UniqueExtranonce1 ==
    \A c, d \in DOMAIN clients : c # d => Extranonce1(c) # Extranonce1(d)

\* C25: when a line that is not valid JSON is read from a session, no reply
\* is sent for it and the connection is closed: the thread of the session
\* ends and the session leaves the registry
C25_MalformedLineCloses ==
    [][\A c \in ClientIds :
          (nreq'[c] = nreq[c] + 1 /\ cur'[c] = NotReading) =>
             /\ sent'[c] = <<>>
             /\ ~(c \in DOMAIN clients')
             /\ pc'[c] = "closed"]_vars

\* C26: the read buffer of a session never holds more than the frame cap of
\* 64 KiB, however many bytes the client sends without a newline
C26_BufferCapped == \A c \in ClientIds : buffer[c] <= 65536

\* C27: once the running flag is cleared, the broadcaster stops at its next
\* wakeup without a sweep, and no step of the broadcaster sends a frame to
\* any session
C27_NoSweepAfterStop ==
    [][(~running /\ BroadcastStep) =>
          /\ sent' = sent
          /\ bpc = "sleep" => bpc' = "done"]_vars

\* C28: closing the listening socket halts the accept loop, whatever the
\* running flag: once the socket is closed the loop never calls accept on
\* it again, and the failed accept ends the loop
C28_CloseHaltsAcceptLoop ==
    [][acceptor = "closed" =>
          /\ acceptor' # "retrying"
          /\ acceptor' # acceptor => acceptor' = "done"]_vars

\* C29: a failed write to the socket of a session ends the session as EOF
\* does: when the reply to a request cannot be written, the thread of the
\* session ends and the session leaves the registry, so that no further
\* request of the session is handled
C29_WriteErrorEndsSession ==
    [][\A c \in ClientIds :
          (pc[c] = "reset" /\ nreq'[c] = nreq[c] + 1 /\ cur'[c] # NotReading) =>
             /\ pc'[c] = "closed"
             /\ ~(c \in DOMAIN clients')]_vars


\* C30: when the hash of a submit meets the network target and submit_block
\* answers False (the node rejected the block, or the call failed), the share
\* stays valid: it
\* is recorded for its worker, the submit is answered result true with no
\* error, and no frame sent to the miner carries an error
C30_RejectedBlockKeepsShare ==
    [][\A c \in ClientIds :
          /\ (Reads(c, "mining.submit") /\ sink' # sink
                /\ blockResult' = "False") =>
                /\ miners' = process_share(miners, cur'[c].request.worker)
                /\ \A k \in 1..Len(sent'[c]) :
                      IsReply(sent'[c][k]) => sent'[c][k].error = NoError
                /\ pc'[c] = "recv" =>
                      sent'[c] = <<Reply(cur'[c].id, "true", NoError, <<>>)>>
          /\ (pc[c] = "vardiff_sleep" /\ pc'[c] = "recv"
                /\ blockResult = "False") =>
                /\ sent'[c][Len(sent'[c])] = Reply(cur[c].id, "true", NoError, <<>>)
                /\ \A k \in 1..Len(sent'[c]) :
                      IsReply(sent'[c][k]) => sent'[c][k].error = NoError
                /\ miners' = miners]_vars

\* a block built from a share was rejected by the node; the share is counted
\* and the miner has its reply
C30_Witness ==
    \E c \in DOMAIN clients :
        /\ blockResult = "False"
        /\ sink # <<>>
        /\ pc[c] = "recv"
        /\ cur[c].request.method = "mining.submit"
        /\ cur[c].request.worker \in DOMAIN miners
        /\ sent[c] # <<>>
        /\ sent[c][Len(sent[c])] = Reply(cur[c].id, "true", NoError, <<>>)


\* C31: a mining.submit handled while the template provider is unavailable
\* is answered result false with error code 23 and records no share
C31_UnavailableSubmitFails ==
    [][\A c \in ClientIds :
          (TemplateUnavailable /\ Reads(c, "mining.submit")) =>
             /\ \E k \in 1..Len(sent'[c]) :
                   /\ IsReply(sent'[c][k])
                   /\ sent'[c][k].result = "false"
                   /\ sent'[c][k].error # NoError
                   /\ sent'[c][k].error[1] = 23
             /\ miners' = miners]_vars

\* C32: a mining.submit whose ntime lies outside [template.mintime, now + 2h]
\* is answered result false with error code 23 and is not counted; an ntime
\* below the mintime of the template is outside the window at any time
C32_NtimeOutsideWindowRejected ==
    [][\A c \in ClientIds :
          (/\ Reads(c, "mining.submit")
           /\ cur'[c].request.ntime # NoField
           /\ HexToInt(cur'[c].request.ntime) < get_block_template.mintime) =>
             /\ \E k \in 1..Len(sent'[c]) :
                   /\ IsReply(sent'[c][k])
                   /\ sent'[c][k].result = "false"
                   /\ sent'[c][k].error # NoError
                   /\ sent'[c][k].error[1] = 23
             /\ miners' = miners]_vars


C34_SingleUpstreamAttempt ==
    /\ gattempts <= 1
    /\ gpc # "raised"


\* C35: when an accepted mining.submit changes the difficulty of its session,
\* the reply to the submit (result true) is the first frame written to the
\* session for it, ahead of mining.set_difficulty and mining.notify
C35_ReplyPrecedesVardiff ==
    [][\A c \in ClientIds :
          (/\ Reads(c, "mining.submit")
           /\ cur'[c].request.nparams >= 5
           /\ clients[c].authorized
           /\ ChangedSignificantly(clients'[c].difficulty, clients[c].difficulty)) =>
             /\ sent'[c] # <<>>
             /\ sent'[c][1] = Reply(cur'[c].id, "true", NoError, <<>>)]_vars


\* C39: the difficulty stored in an authorized session is the value of the
\* last mining.set_difficulty written to it: a step that writes such frames
\* leaves the last one equal to the stored value, and a step that changes the
\* stored value writes a mining.set_difficulty with the new one
C39_StoredDifficultyAnnounced ==
    [][\A c \in DOMAIN clients' :
          clients'[c].authorized =>
             /\ \A k \in 1..Len(sent'[c]) :
                   (/\ IsSetDifficulty(sent'[c][k])
                    /\ \A j \in (k + 1)..Len(sent'[c]) : ~IsSetDifficulty(sent'[c][j])) =>
                      sent'[c][k].params = <<clients'[c].difficulty>>
             /\ (c \in DOMAIN clients /\ clients'[c].difficulty # clients[c].difficulty) =>
                   \E k \in 1..Len(sent'[c]) :
                      sent'[c][k] = SetDifficulty(clients'[c].difficulty)]_vars


\* C36: share recording is synchronized: whenever no thread is between its
\* load and its save, the store holds for every worker the shares it had at
\* the start plus one per accepted submit, whatever the interleaving of the
\* session threads, the payout processor and the backup service
C36_SharesCountedExactly ==
    (\A t \in DOMAIN tasks : tasks[t].pc = "idle") =>
        \A w \in Workers :
           /\ w \in DOMAIN miners
           /\ miners[w].shares = ledger[w].shares

\* C37: a block entry and its reward are credited to a worker only by the
\* recording of a submit whose hash met the network target
C37_BlockCreditNeedsBlock ==
    [][\A w \in DOMAIN miners' :
          (\E t \in {"session1", "session2"} :
              /\ tasks[t].pc = "loaded" /\ tasks'[t].pc = "idle"
              /\ tasks[t].worker = w
              /\ miners'[w].blocks > tasks[t].miners[w].blocks) =>
             \E t \in {"session1", "session2"} :
                /\ tasks[t].pc = "loaded" /\ tasks'[t].pc = "idle"
                /\ tasks[t].was_block]_vars

\* C38: in every state of the store and for every miner, paid plus
\* immature_balance is the sum of the values of the blocks credited to the
\* miner, and each credited reward is paid out at most once: what has been
\* sent to the miner is no more than the rewards that were credited to it
C38_RewardPaidOnce ==
    \A w \in DOMAIN miners :
       /\ miners[w].paid + miners[w].immature_balance = miners[w].blocks * block_reward
       /\ ledger[w].sent <= ledger[w].blocks * block_reward


\* C40: a share accepted on a session is recorded for the worker name the
\* session authorized with, whatever name the params of mining.submit carry
C40_ShareCreditedToAuthorizedWorker ==
    [][\A c \in ClientIds :
          (Reads(c, "mining.submit") /\ miners' # miners) =>
             miners' = process_share(miners, clients[c].worker)]_vars

====
